---- MODULE Spec2Model ----
(***************************************************************************)
(* Pipeline graph editor (PipelineEditor.tsx), the Prompt and Spreadsheet  *)
(* node runtimes it mounts (PromptNode, SpreadsheetNode), the alternate    *)
(* prompt runtime of PromptTemplateNode.tsx, and the tabbed editor with    *)
(* its content classification (EditorPanel.tsx, the component that owns    *)
(* its tabs, which is the one PipelineEditor renders).                     *)
(*                                                                         *)
(* Strings are the program's strings.  `undefined` is the JavaScript       *)
(* undefined of an absent data field.  Times are milliseconds.            *)
(***************************************************************************)
EXTENDS Integers, Sequences, FiniteSets, TLC

VARIABLES
  nodes,                  \* PipelineEditor: useState nodes (array of FlowNode<NodeData>)
  edges,                  \* PipelineEditor: useState edges
  now,                    \* Date.now()
  hasKey,                 \* whether REACT_APP_GEMINI_API_KEY is set in the build
  executedNodes,          \* PromptNode: module-level Set of node ids
  promptCalls,            \* text-generation requests in flight (PromptNode.executePrompt)
  invocations,            \* history: every text-generation request issued by a Prompt node
  tabs,                   \* EditorPanel: useState tabs
  activeTab,              \* EditorPanel: useState activeTab
  lastChangeTime,         \* EditorPanel: useRef lastChangeTime
  classificationTimeout,  \* EditorPanel: useRef classificationTimeout
  classifyCalls,          \* classifyContent promises not yet settled
  edits,                  \* history: number of content edits so far
  burst,                  \* history: the current burst of edits and its classification calls
  applied,                \* history: the last classification result applied to a tab
  promptComponent,        \* the component that renders PROMPT_TEMPLATE nodes
  templateDeps,           \* PromptTemplateNode: [data.prompt, data.input] its effect last ran with
  templateTimers,         \* PromptTemplateNode: pending setTimeout of each mounted node
  selectedNode,           \* the editor of the data-source canvas: useState selectedNode
  newTabName,             \* EditorPanel: useState newTabName, the text of the new-tab field
  editingTabId,           \* EditorPanel: useState editingTabId, the tab being renamed
  editingName,            \* EditorPanel: useState editingName, the text of the rename field
  reported,               \* the pipeline last passed to onChange, which the parent hands
                          \* back as the pipeline prop (followed only where tracked)
  lastOp                  \* history: the handler that ran last

vars == <<nodes, edges, now, hasKey, executedNodes, promptCalls, invocations,
          tabs, activeTab, lastChangeTime, classificationTimeout, classifyCalls,
          edits, burst, applied, promptComponent, templateDeps, templateTimers,
          selectedNode, newTabName, editingTabId, editingName, reported, lastOp>>

graphVars == <<nodes, edges, executedNodes, promptCalls, invocations>>
editorVars == <<tabs, activeTab, lastChangeTime, classificationTimeout,
                classifyCalls, edits, burst, applied>>
templateVars == <<promptComponent, templateDeps, templateTimers>>
tabEditVars == <<newTabName, editingTabId, editingName>>

-----------------------------------------------------------------------------
(* Bounds of the model *)

MaxNodes == 3
MaxClock == 4
MaxTicks == 5
MaxEdits == 2
MaxTabs == 6
innerWidth == 1000
innerHeight == 800

(* Program constants *)

NODE_WIDTH == 180
NODE_HEIGHT == 100
CLASSIFICATION_PAUSE_TIME == 1000
PromptPause == 1000

undefined == "undefined"
None == [none |-> TRUE]

\* null where the other values are strings
null == "null"

-----------------------------------------------------------------------------
(* JavaScript helpers *)

\* `v || ''` on an optional string
OrEmpty(v) == IF v = undefined \/ v = "" THEN "" ELSE v

\* truthiness of an optional string
Truthy(v) == v # undefined /\ v # ""

Max(a, b) == IF a > b THEN a ELSE b

\* String.prototype.indexOf, counted from 1; 0 when the pattern does not occur
indexOf(s, pattern) ==
  LET hits == {i \in 1..(Len(s) - Len(pattern) + 1) :
                 SubSeq(s, i, i + Len(pattern) - 1) = pattern}
  IN IF hits = {} THEN 0 ELSE CHOOSE i \in hits : \A k \in hits : i <= k

\* String.prototype.replace with a string pattern: the first occurrence only
\* (the node inputs of this model hold no '$', so no replacement pattern applies)
replace(s, pattern, replacement) ==
  LET i == indexOf(s, pattern) IN
  IF i = 0 THEN s
  ELSE SubSeq(s, 1, i - 1) \o replacement \o SubSeq(s, i + Len(pattern), Len(s))

MapSeq(s, F(_)) == [i \in 1..Len(s) |-> F(s[i])]

NodeIds(nds) == {nds[i].id : i \in 1..Len(nds)}

\* Array.prototype.find: index of the first node with this id, 0 if none
FindNode(nds, id) ==
  IF \E i \in 1..Len(nds) : nds[i].id = id
  THEN CHOOSE i \in 1..Len(nds) : nds[i].id = id /\ \A j \in 1..(i-1) : nds[j].id # id
  ELSE 0

-----------------------------------------------------------------------------
(* Node types and the values that flow through the graph *)

DATA_SOURCE == "DATA_SOURCE"
PROMPT_TEMPLATE == "PROMPT_TEMPLATE"
SPREADSHEET == "SPREADSHEET"
DISPLAY == "DISPLAY"

PaletteTypes == {DATA_SOURCE, PROMPT_TEMPLATE, SPREADSHEET, DISPLAY}


\* type.replace('_', ' ')
TypeText(type) ==
  CASE type = DATA_SOURCE -> "DATA SOURCE"
    [] type = PROMPT_TEMPLATE -> "PROMPT TEMPLATE"
    [] OTHER -> type

\* The texts the text-generation service can answer a prompt with.
GeneratedTexts == {"[{\"a\":1}]"}

\* Outcomes of one text-generation request of a Prompt node.
PromptReplies ==
  [ok : {TRUE}, text : GeneratedTexts] \cup {[ok |-> FALSE, text |-> "500"]}

\* JSON.parse of a node input, as far as SpreadsheetNode looks at it.
\* "array": a non-empty array; "empty": the array []; "object": any other JSON
\* value; "invalid": JSON.parse throws.
ParseKind(s) ==
  CASE s = "[{\"a\":1}]" -> "array"
    [] s = "[]" -> "empty"
    [] s = "{\"a\":1}" -> "object"
    [] OTHER -> "invalid"

\* The tabs whose content reaches the graph, and what the user can type into them.
TabIds == {"Prompt 1"}
Contents == {"Summarize INPUT", "List tactics"}

\* event.dataTransfer of a tab drag (EditorPanel.handleDragStart): the tab's id
\* and name, its content and the node type of its classification (getTabType).
DragPayloads ==
  { [tabId |-> "Prompt 1", tabContent |-> "Summarize INPUT", nodeId |-> "prompt-template"],
    [tabId |-> "Prompt 1", tabContent |-> "Create a list", nodeId |-> "prompt-template"],
    [tabId |-> "Dataset 1", tabContent |-> "{\"tactics\":[]}", nodeId |-> "data-source"] }

\* Milliseconds that pass between two user events of the pipeline editor.
ClockSteps == {dt \in {1} : now + dt <= MaxClock}

\* Canvas coordinates a drop can land on (screenToFlowPosition of the cursor).
DropPositions == {[x |-> 500, y |-> 200]}

\* Placement: the palette types and the tab that are placed and where the tab
\* can be dropped.
PlacedTypes == {DATA_SOURCE, DISPLAY}
PlacedPayloads == {p \in DragPayloads : p.nodeId = "data-source"}
PlacementPositions == {[x |-> 500, y |-> 200], [x |-> 500, y |-> 100]}

\* Milliseconds between two events when an event can fall in the same
\* millisecond of Date.now() as the event before it.
RapidSteps == {dt \in {0, 1} : now + dt <= MaxClock}

-----------------------------------------------------------------------------
(* PipelineEditor: pure helpers *)

SqDist(n, p) == (n.x - p.x) * (n.x - p.x) + (n.y - p.y) * (n.y - p.y)

\* findClosestNode replacing the closest node on distance <= minDistance
\* (sensitivity of C20)
RECURSIVE closestAmongLast(_, _, _)
closestAmongLast(nds, p, k) ==
  IF k = 0 THEN 0
  ELSE LET closestNode == closestAmongLast(nds, p, k - 1) IN
       IF closestNode = 0 \/ SqDist(nds[k], p) <= SqDist(nds[closestNode], p)
       THEN k ELSE closestNode

findClosestNodeLast(nds, p) == closestAmongLast(nds, p, Len(nds))

\* The forEach loop of findClosestNode after its first k nodes: the index of
\* closestNode, 0 for null (minDistance is Infinity).  The square root is
\* monotonic, so the squared distances are compared.
RECURSIVE closestAmong(_, _, _)
closestAmong(nds, p, k) ==
  IF k = 0 THEN 0
  ELSE LET closestNode == closestAmong(nds, p, k - 1) IN
       IF closestNode = 0 \/ SqDist(nds[k], p) < SqDist(nds[closestNode], p)
       THEN k ELSE closestNode

\* Index of the closest node, 0 for an empty array.
findClosestNode(nds, p) == closestAmong(nds, p, Len(nds))

\* createConnection comparing with <= (sensitivity of C19)
createConnectionReversed(sourceNode, targetNode) ==
  LET isAbove == sourceNode.y > targetNode.y IN
  [id |-> "edge-" \o sourceNode.id \o "-" \o targetNode.id,
   source |-> IF isAbove THEN sourceNode.id ELSE targetNode.id,
   target |-> IF isAbove THEN targetNode.id ELSE sourceNode.id]

createConnectionNonStrict(sourceNode, targetNode) ==
  LET isAbove == sourceNode.y <= targetNode.y IN
  [id |-> "edge-" \o sourceNode.id \o "-" \o targetNode.id,
   source |-> IF isAbove THEN sourceNode.id ELSE targetNode.id,
   target |-> IF isAbove THEN targetNode.id ELSE sourceNode.id]

createConnection(sourceNode, targetNode) ==
  LET isAbove == sourceNode.y < targetNode.y IN
  [id |-> "edge-" \o sourceNode.id \o "-" \o targetNode.id,
   source |-> IF isAbove THEN sourceNode.id ELSE targetNode.id,
   target |-> IF isAbove THEN targetNode.id ELSE sourceNode.id]

\* reactflow addEdge: a connection that already exists is not added twice
connectionExists(edge, eds) ==
  \E i \in 1..Len(eds) : eds[i].source = edge.source /\ eds[i].target = edge.target

addEdge(connection, eds) ==
  LET edge == [id |-> "reactflow__edge-" \o connection.source \o "-" \o connection.target,
               source |-> connection.source,
               target |-> connection.target] IN
  IF connectionExists(edge, eds) THEN eds ELSE Append(eds, edge)

\* uniqueName numbering the copy by the number of nodes (sensitivity of C16)
uniqueNameByCount(nds, base, nodeName, counter) ==
  IF \E i \in 1..Len(nds) : nds[i].label = nodeName
  THEN base \o " (Copy " \o ToString(Len(nds)) \o ")"
  ELSE nodeName

\* the while loop that looks for a free label
RECURSIVE uniqueName(_, _, _, _)
uniqueName(nds, base, nodeName, counter) ==
  IF \E i \in 1..Len(nds) : nds[i].label = nodeName
  THEN uniqueName(nds, base, base \o " (Copy " \o ToString(counter) \o ")", counter + 1)
  ELSE nodeName

\* nodes.reduce((maxY, node) => Math.max(maxY, node.position.y), 0)
RECURSIVE lowestYOf(_, _)
lowestYOf(nds, k) ==
  IF k = 0 THEN 0 ELSE Max(lowestYOf(nds, k - 1), nds[k].y)

\* nodes.reduce((lowest, node) => node.y > lowest.y ? node : lowest, nodes[0]),
\* as an index; 0 for an empty array (nodes[0] is undefined)
RECURSIVE lowestNodeOf(_, _)
lowestNodeOf(nds, k) ==
  IF k = 0 THEN 0
  ELSE IF k = 1 THEN 1
  ELSE LET l == lowestNodeOf(nds, k - 1) IN
       IF nds[k].y > nds[l].y THEN k ELSE l

\* SetInput without the reset of the output (sensitivity of C6)
SetInputKeepingOutput(nds, id, input) ==
  MapSeq(nds, LAMBDA n : IF n.id = id THEN [n EXCEPT !.input = input] ELSE n)

\* {...node, data: {...node.data, input, output: undefined}} for the nodes with this id
SetInput(nds, id, input) ==
  MapSeq(nds, LAMBDA n : IF n.id = id THEN [n EXCEPT !.input = input, !.output = undefined] ELSE n)

\* the setNodes updater of handleNodeOutputUpdate
SetOutput(nds, nodeId, output) ==
  MapSeq(nds, LAMBDA n : IF n.id = nodeId THEN [n EXCEPT !.output = output] ELSE n)

\* the setNodes updater of onTabContentChange
SetPrompt(nds, tabId, content) ==
  MapSeq(nds, LAMBDA n : IF n.tabId = tabId
                         THEN [n EXCEPT !.prompt = content, !.output = undefined]
                         ELSE n)

\* A node as onAddNode builds it.  depInput is the [data.input, id] dependency
\* the SpreadsheetNode effect last ran with ("unmounted" before the first run).
PaletteNode(type, id, label, x, y, tabId) ==
  [id |-> id, type |-> type, label |-> label, x |-> x, y |-> y,
   sourceType |-> IF type = DATA_SOURCE THEN "csv"
                  ELSE IF type = SPREADSHEET THEN "spreadsheet" ELSE undefined,
   prompt |-> IF type = PROMPT_TEMPLATE THEN "" ELSE undefined,
   displayType |-> IF type = DISPLAY THEN "table" ELSE undefined,
   input |-> IF type = DISPLAY THEN undefined ELSE "",
   output |-> undefined,
   tabId |-> tabId,
   depInput |-> "unmounted"]

\* nodeId.startsWith(...) chain of onDrop
DropType(nodeId) ==
  CASE nodeId = "data-source" -> DATA_SOURCE
    [] nodeId = "prompt-template" -> PROMPT_TEMPLATE
    [] nodeId = "spreadsheet" -> SPREADSHEET
    [] OTHER -> DISPLAY

\* A node as the canvas branch of onDrop builds it.
DroppedNode(type, id, label, x, y, tabId, tabContent, sourceOutput) ==
  [id |-> id, type |-> type, label |-> label, x |-> x, y |-> y,
   sourceType |-> IF type = DATA_SOURCE THEN "csv"
                  ELSE IF type = SPREADSHEET THEN "spreadsheet" ELSE undefined,
   prompt |-> IF type = PROMPT_TEMPLATE THEN tabContent ELSE undefined,
   displayType |-> IF type = DISPLAY THEN "table" ELSE undefined,
   input |-> IF type \in {PROMPT_TEMPLATE, SPREADSHEET} THEN sourceOutput ELSE undefined,
   output |-> undefined,
   tabId |-> tabId,
   depInput |-> "unmounted"]

-----------------------------------------------------------------------------
(* Node runtimes: React effects of the mounted node components.  An effect  *)
(* whose dependencies changed runs before the next event is handled.        *)

\* PromptNode useEffect: `!executedNodes.has(id) && data.prompt`
PromptEffectEnabled(n) ==
  /\ promptComponent = "PromptNode"
  /\ n.type = PROMPT_TEMPLATE
  /\ n.id \notin executedNodes
  /\ Truthy(n.prompt)

\* PromptTemplateNode useEffect: runs on mount and when [data.prompt, data.input] changed
TemplateEffectEnabled(n) ==
  /\ promptComponent = "PromptTemplateNode"
  /\ n.type = PROMPT_TEMPLATE
  /\ (n.id \in DOMAIN templateDeps => templateDeps[n.id] # <<n.prompt, n.input>>)

\* SpreadsheetNode useEffect: runs on mount and when [data.input, id] changed
SheetEffectEnabled(n) ==
  n.type = SPREADSHEET /\ n.depInput # n.input

EffectsPending ==
  \E i \in 1..Len(nodes) : \/ PromptEffectEnabled(nodes[i])
                           \/ SheetEffectEnabled(nodes[i])
                           \/ TemplateEffectEnabled(nodes[i])

\* PromptNode.executePrompt: the text it sends
processedPrompt(prompt, input) == replace(prompt, "INPUT", OrEmpty(input))

\* PromptTemplateNode.executePrompt: the text it sends
promptWithInput(prompt, input) ==
  IF Truthy(input) THEN prompt \o "\n\nInput: " \o input ELSE prompt

\* history: a text-generation request for this node, prompt and input is issued
\* at the time now, with this text.
\* repeat: an earlier request of the node for the same pair had already been answered.
Invoke(nodeId, prompt, input, text) ==
  [nodeId |-> nodeId, prompt |-> prompt, input |-> input, text |-> text,
   at |-> now, resolved |-> FALSE,
   repeat |-> \E k \in 1..Len(invocations) :
                /\ invocations[k].nodeId = nodeId
                /\ invocations[k].prompt = prompt
                /\ invocations[k].input = input
                /\ invocations[k].resolved]

\* the request in flight: what executePrompt closed over, n its place in the history
Request(nodeId, prompt, input) ==
  [nodeId |-> nodeId, prompt |-> prompt, input |-> input, n |-> Len(invocations) + 1]

\* What PromptNode.executePrompt dispatches as the node's output.
PromptOutput(reply) ==
  IF reply.ok THEN reply.text ELSE "Error: API request failed: " \o reply.text

\* What SpreadsheetNode.processInput dispatches for a non-empty input.
\* Object.keys(parsedData[0]) throws a TypeError for the array [].
SheetOutput(input) ==
  CASE ParseKind(input) = "array" -> input
    [] ParseKind(input) = "empty" -> "Error: Cannot convert undefined or null to object"
    [] OTHER -> "Error: Unexpected token"

\* processInput dispatches updateNodeOutput inside `if (Array.isArray(parsedData))`
\* and inside `catch`: a JSON value that is not an array dispatches nothing
SheetDispatches(input) == ParseKind(input) # "object"

-----------------------------------------------------------------------------
(* PipelineEditor handlers.  A user event arrives dt milliseconds after the *)
(* previous one.                                                            *)

Elapse(dt) == now' = now + dt

\* reported where no specification follows the calls of onChange
Untracked == [tracked |-> FALSE, nodes |-> <<>>, edges |-> <<>>]

\* onChange({ ...pipeline, nodes: updatedNodes }): the edges are those of the
\* pipeline prop of the render the handler was created in
ReportNodes(updatedNodes) ==
  [tracked |-> TRUE, nodes |-> updatedNodes, edges |-> reported.edges]

\* onChange({ ...pipeline, edges: updatedEdges })
ReportEdges(updatedEdges) ==
  [tracked |-> TRUE, nodes |-> reported.nodes, edges |-> updatedEdges]

\* a handler's calls of onChange run inside the state updaters, in the order
\* React runs the updaters: the last call is any one of them
Report(calls) ==
  IF reported.tracked THEN reported' \in calls ELSE reported' = reported

onAddNode(type, dt) ==
  /\ ~EffectsPending
  /\ Len(nodes) < MaxNodes
  /\ Elapse(dt)
  /\ LET stamp == ToString(now + dt)
         lowestY == lowestYOf(nodes, Len(nodes))
         lowestNode == lowestNodeOf(nodes, Len(nodes))
         xPosition == IF lowestNode # 0 THEN nodes[lowestNode].x
                      ELSE (innerWidth \div 2) - (NODE_WIDTH \div 2)
         base == "New " \o TypeText(type)
         nodeName == uniqueName(nodes, base, base, 1)
         newNode == PaletteNode(type, "node-" \o stamp, nodeName, xPosition,
                                lowestY + 100, "tab-" \o stamp)
         added == Append(nodes, newNode)
     IN IF lowestNode # 0
        THEN /\ edges' = Append(edges,
                           [id |-> "edge-" \o nodes[lowestNode].id \o "-" \o newNode.id,
                            source |-> nodes[lowestNode].id,
                            target |-> newNode.id])
             /\ nodes' = SetInput(added, newNode.id, OrEmpty(nodes[lowestNode].output))
        ELSE /\ edges' = edges
             /\ nodes' = added
  /\ Report(IF Len(nodes) = 0 THEN {ReportNodes(nodes')}
            ELSE {ReportNodes(nodes'), ReportEdges(edges')})
  /\ lastOp' = "onAddNode"
  /\ UNCHANGED <<hasKey, executedNodes, promptCalls, invocations, editorVars, templateVars, selectedNode, tabEditVars>>

\* onDrop, the branch taken when no target node is found: a drop on the canvas
\* event.dataTransfer.getData: '' for a key the drag source did not set
getData(dataTransfer, key) ==
  IF key \in DOMAIN dataTransfer THEN dataTransfer[key] ELSE ""

\* onDrop, the branch taken when the dragged data names a target node
ApplyToTarget(nds, targetNodeId, nodeId, tabId, tabContent) ==
  LET targetNode == nds[FindNode(nds, targetNodeId)] IN
  MapSeq(nds, LAMBDA node :
    IF node.id # targetNodeId THEN node
    ELSE CASE nodeId = "data-source" ->
                [node EXCEPT !.sourceType = "csv", !.tabId = tabId]
           [] nodeId = "prompt-template" ->
                [node EXCEPT !.prompt = tabContent, !.input = OrEmpty(targetNode.input),
                             !.output = undefined, !.tabId = tabId]
           [] nodeId = "spreadsheet" ->
                [node EXCEPT !.sourceType = "spreadsheet",
                             !.input = OrEmpty(targetNode.input),
                             !.output = undefined, !.tabId = tabId]
           [] nodeId = "display" ->
                [node EXCEPT !.displayType = "table", !.tabId = tabId]
           [] OTHER -> [node EXCEPT !.tabId = tabId])

onDrop(payload, position, dt) ==
  /\ ~EffectsPending
  /\ Elapse(dt)
  /\ IF FindNode(nodes, getData(payload, "targetNodeId")) # 0
     THEN /\ nodes' = ApplyToTarget(nodes, getData(payload, "targetNodeId"),
                                    payload.nodeId, payload.tabId, payload.tabContent)
          /\ edges' = edges
     ELSE /\ Len(nodes) < MaxNodes
          /\ LET centeredPosition == [x |-> position.x - (NODE_WIDTH \div 2),
                                         y |-> position.y - (NODE_HEIGHT \div 2)]
                    tabName == payload.tabId
                    nodeName == uniqueName(nodes, tabName, tabName, 1)
                    nodeType == DropType(payload.nodeId)
                    closestNode == findClosestNode(nodes, centeredPosition)
                    sourceOutput == IF closestNode = 0 THEN "" ELSE OrEmpty(nodes[closestNode].output)
                    newNode == DroppedNode(nodeType, "node-" \o ToString(now + dt), nodeName,
                                           centeredPosition.x, centeredPosition.y,
                                           payload.tabId, payload.tabContent, sourceOutput)
                IN /\ nodes' = Append(nodes, newNode)
                   /\ edges' = IF closestNode # 0
                               THEN Append(edges, createConnection(nodes[closestNode], newNode))
                               ELSE edges
  /\ Report(IF edges' = edges THEN {ReportNodes(nodes')}
            ELSE {ReportNodes(nodes'), ReportEdges(edges')})
  /\ lastOp' = "onDrop"
  /\ UNCHANGED <<hasKey, executedNodes, promptCalls, invocations, editorVars, templateVars, selectedNode, tabEditVars>>

onConnect(source, target, dt) ==
  /\ ~EffectsPending
  /\ Elapse(dt)
  /\ source \in NodeIds(nodes)
  /\ target \in NodeIds(nodes)
  /\ edges' = addEdge([source |-> source, target |-> target], edges)
  /\ LET sourceNode == nodes[FindNode(nodes, source)]
         targetNode == nodes[FindNode(nodes, target)]
     IN nodes' = SetInput(nodes, targetNode.id, OrEmpty(sourceNode.output))
  /\ Report({ReportNodes(nodes'), ReportEdges(edges')})
  /\ lastOp' = "onConnect"
  /\ UNCHANGED <<hasKey, executedNodes, promptCalls, invocations, editorVars, templateVars, selectedNode, tabEditVars>>

\* removeNode filtering the edges on their source alone (sensitivity of C2)
removeNodeBySource(nodeId, dt) ==
  /\ ~EffectsPending
  /\ Elapse(dt)
  /\ nodeId \in NodeIds(nodes)
  /\ nodes' = SelectSeq(nodes, LAMBDA n : n.id # nodeId)
  /\ edges' = SelectSeq(edges, LAMBDA e : e.source # nodeId)
  /\ Report({ReportNodes(nodes'), ReportEdges(edges')})
  /\ lastOp' = "removeNode"
  /\ UNCHANGED <<hasKey, executedNodes, promptCalls, invocations, editorVars, templateVars, selectedNode, tabEditVars>>

removeNode(nodeId, dt) ==
  /\ ~EffectsPending
  /\ Elapse(dt)
  /\ nodeId \in NodeIds(nodes)
  /\ nodes' = SelectSeq(nodes, LAMBDA n : n.id # nodeId)
  /\ edges' = SelectSeq(edges, LAMBDA e : e.source # nodeId /\ e.target # nodeId)
  /\ Report({ReportNodes(nodes'), ReportEdges(edges')})
  /\ lastOp' = "removeNode"
  /\ UNCHANGED <<hasKey, executedNodes, promptCalls, invocations, editorVars, templateVars, selectedNode, tabEditVars>>

handleDeleteEdge(edgeId, dt) ==
  /\ ~EffectsPending
  /\ Elapse(dt)
  /\ \E i \in 1..Len(edges) : edges[i].id = edgeId
  /\ edges' = SelectSeq(edges, LAMBDA e : e.id # edgeId)
  /\ Report({ReportEdges(edges')})
  /\ lastOp' = "handleDeleteEdge"
  /\ UNCHANGED <<nodes, hasKey, executedNodes, promptCalls, invocations, editorVars, templateVars, selectedNode, tabEditVars>>

handleClearAll(dt) ==
  /\ ~EffectsPending
  /\ Elapse(dt)
  /\ nodes' = <<>>
  /\ edges' = <<>>
  /\ Report({[tracked |-> TRUE, nodes |-> <<>>, edges |-> <<>>]})
  /\ lastOp' = "handleClearAll"
  /\ UNCHANGED <<hasKey, executedNodes, promptCalls, invocations, editorVars, templateVars, selectedNode, tabEditVars>>

onTabContentChange(tabId, content, dt) ==
  /\ ~EffectsPending
  /\ Elapse(dt)
  /\ nodes' = SetPrompt(nodes, tabId, content)
  /\ Report({ReportNodes(nodes')})
  /\ lastOp' = "onTabContentChange"
  /\ UNCHANGED <<edges, hasKey, executedNodes, promptCalls, invocations, editorVars, templateVars, selectedNode, tabEditVars>>

\* PromptNode: the effect and the executePrompt call it makes, up to the fetch
PromptEffect(i) ==
  /\ i \in 1..Len(nodes)
  /\ PromptEffectEnabled(nodes[i])
  /\ executedNodes' = executedNodes \cup {nodes[i].id}
  /\ LET n == nodes[i]
     IN IF hasKey
        THEN /\ promptCalls' = promptCalls \cup {Request(n.id, n.prompt, n.input)}
             /\ invocations' = Append(invocations, Invoke(n.id, n.prompt, n.input,
                                                         processedPrompt(n.prompt, n.input)))
        ELSE UNCHANGED <<promptCalls, invocations>>
  /\ lastOp' = "executePrompt"
  /\ UNCHANGED <<nodes, edges, now, hasKey, editorVars, templateVars, selectedNode, tabEditVars, reported>>

\* handleNodeOutputUpdate adding a node for an id it does not find (sensitivity of C34)
handleNodeOutputUpsert(call, reply) ==
  /\ ~EffectsPending
  /\ call \in promptCalls
  /\ promptCalls' = promptCalls \ {call}
  /\ nodes' = IF call.nodeId \in NodeIds(nodes)
              THEN SetOutput(nodes, call.nodeId, PromptOutput(reply))
              ELSE Append(nodes, [PaletteNode(PROMPT_TEMPLATE, call.nodeId, "Prompt 1", 0, 0, undefined)
                                   EXCEPT !.output = PromptOutput(reply)])
  /\ invocations' = [invocations EXCEPT ![call.n].resolved = TRUE]
  /\ Report({ReportNodes(nodes')})
  /\ lastOp' = "updateNodeOutput"
  /\ UNCHANGED <<edges, now, hasKey, executedNodes, editorVars, templateVars, selectedNode, tabEditVars>>

\* PromptNode.executePrompt after the fetch settles, and the handleNodeOutputUpdate
\* listener its updateNodeOutput event reaches
handleNodeOutputUpdate(call, reply) ==
  /\ ~EffectsPending
  /\ call \in promptCalls
  /\ promptCalls' = promptCalls \ {call}
  /\ nodes' = SetOutput(nodes, call.nodeId, PromptOutput(reply))
  /\ invocations' = [invocations EXCEPT ![call.n].resolved = TRUE]
  /\ Report({ReportNodes(nodes')})
  /\ lastOp' = "updateNodeOutput"
  /\ UNCHANGED <<edges, now, hasKey, executedNodes, editorVars, templateVars, selectedNode, tabEditVars>>

-----------------------------------------------------------------------------
(* PromptTemplateNode: the prompt runtime of components/nodes/PromptTemplateNode.tsx, *)
(* for a node without an incoming edge                                                *)

\* the useEffect on [data.prompt, data.input]: its cleanup clears the node's pending
\* timeout, its body sets a new one for the executePrompt of this render
PromptTemplateEffect(i) ==
  /\ i \in 1..Len(nodes)
  /\ TemplateEffectEnabled(nodes[i])
  /\ LET n == nodes[i] IN
       /\ templateDeps' = [id \in DOMAIN templateDeps \cup {n.id} |->
                             IF id = n.id THEN <<n.prompt, n.input>> ELSE templateDeps[id]]
       /\ templateTimers' = {t \in templateTimers : t.nodeId # n.id} \cup
                             {[nodeId |-> n.id, deadline |-> now + PromptPause,
                               prompt |-> n.prompt, input |-> n.input]}
  /\ lastOp' = "PromptTemplateEffect"
  /\ UNCHANGED <<nodes, edges, now, hasKey, executedNodes, promptCalls, invocations,
                 editorVars, promptComponent, selectedNode, tabEditVars, reported>>

\* the timeout fires: executePrompt up to its fetch
PromptTemplateTimer(timer) ==
  /\ ~EffectsPending
  /\ timer \in templateTimers
  /\ timer.deadline <= now
  /\ templateTimers' = templateTimers \ {timer}
  /\ IF Truthy(timer.prompt)
     THEN /\ promptCalls' = promptCalls \cup {Request(timer.nodeId, timer.prompt, timer.input)}
          /\ invocations' = Append(invocations, Invoke(timer.nodeId, timer.prompt, timer.input,
                                                         promptWithInput(timer.prompt, timer.input)))
     ELSE UNCHANGED <<promptCalls, invocations>>
  /\ lastOp' = "PromptTemplateTimer"
  /\ UNCHANGED <<nodes, edges, now, hasKey, executedNodes, editorVars, promptComponent,
                 templateDeps, selectedNode, tabEditVars, reported>>

\* executePrompt after the fetch settles: updateNodeData({output}) on success,
\* only the component's own error state on failure
updateNodeData(call, reply) ==
  /\ ~EffectsPending
  /\ call \in promptCalls
  /\ promptCalls' = promptCalls \ {call}
  /\ nodes' = IF reply.ok THEN SetOutput(nodes, call.nodeId, OrEmpty(reply.text)) ELSE nodes
  /\ invocations' = [invocations EXCEPT ![call.n].resolved = TRUE]
  /\ lastOp' = "updateNodeData"
  /\ UNCHANGED <<edges, now, hasKey, executedNodes, editorVars, templateVars, selectedNode, tabEditVars, reported>>

\* SpreadsheetNode: the effect, processInput and the updateNodeOutput it dispatches
processInput(i) ==
  /\ i \in 1..Len(nodes)
  /\ SheetEffectEnabled(nodes[i])
  /\ LET n == nodes[i]
         seen == [nodes EXCEPT ![i].depInput = n.input]
     IN nodes' = IF Truthy(n.input) /\ ~Truthy(n.output) /\ SheetDispatches(n.input)
                 THEN SetOutput(seen, n.id, SheetOutput(n.input))
                 ELSE seen
  /\ Report(IF Truthy(nodes[i].input) /\ ~Truthy(nodes[i].output) /\ SheetDispatches(nodes[i].input)
            THEN {ReportNodes(nodes')} ELSE {reported})
  /\ lastOp' = "processInput"
  /\ UNCHANGED <<edges, now, hasKey, executedNodes, promptCalls, invocations, editorVars, templateVars, selectedNode, tabEditVars>>

-----------------------------------------------------------------------------
(* EditorPanel: content classification *)

DefaultClassification == [type |-> "dataset", format |-> "json", confidence |-> "0.8"]

\* The JSON documents the service can put in its reply, and what JSON.parse
\* makes of them: the fields classifyContent reads (undefined when absent).
\* Confidence is the JSON literal; NumberLiterals are those typeof calls 'number'.
NumberLiterals == {"0.9", "0.8"}

JsonObjects ==
  [ doc : {"{type:prompt,format:text,confidence:0.9}"},
    type : {"prompt"}, format : {"text"}, confidence : {"0.9"} ]
  \cup [ doc : {"{type:prompt}"},
         type : {"prompt"}, format : {undefined}, confidence : {undefined} ]
  \cup [ doc : {"{type:dataset,format:csv,confidence:\"high\"}"},
         type : {"dataset"}, format : {"csv"}, confidence : {"\"high\""} ]
  \cup [ doc : {"{type:image,format:text,confidence:0.9}"},
         type : {"image"}, format : {"text"}, confidence : {"0.9"} ]

\* JSON.parse of the cleaned text: a text that is one JSON document parses,
\* anything else throws
JSONparse(text) ==
  IF Len(text) = 1 /\ \E o \in JsonObjects : o.doc = text[1]
  THEN [ok |-> TRUE, value |-> CHOOSE o \in JsonObjects : o.doc = text[1]]
  ELSE [ok |-> FALSE, value |-> None]

\* The markdown code-fence markers (three backquotes, with and without "json")
FenceJson == "<fence>json"
Fence == "<fence>"

\* text.trim().replace(FenceJson, '').replace(Fence, '').trim(), on a text
\* given as its sequence of chunks
StripFences(text) == SelectSeq(text, LAMBDA t : t \notin {FenceJson, Fence})

\* What can come back for one classification request.
WellFormedReplies ==
  [fetch : {"resolved"}, ok : {TRUE}, body : {"candidates"},
   text : { <<"{type:prompt,format:text,confidence:0.9}">>,
            <<FenceJson, "{type:prompt,format:text,confidence:0.9}", Fence>> }]
NetworkErrors == {[fetch |-> "rejected", ok |-> FALSE, body |-> "", text |-> <<>>]}
Non2xxReplies == {[fetch |-> "resolved", ok |-> FALSE, body |-> "", text |-> <<>>]}
NotJsonReplies ==
  [fetch : {"resolved"}, ok : {TRUE}, body : {"candidates"},
   text : { <<FenceJson, "it is a prompt", Fence>> }]
  \cup {[fetch |-> "resolved", ok |-> TRUE, body |-> "no candidates", text |-> <<>>]}
MissingFieldReplies ==
  [fetch : {"resolved"}, ok : {TRUE}, body : {"candidates"},
   text : { <<"{type:prompt}">>, <<"{type:dataset,format:csv,confidence:\"high\"}">> }]

\* a JSON object with the three fields, its type none of those the prompt lists
UnlistedTypeReplies ==
  [fetch : {"resolved"}, ok : {TRUE}, body : {"candidates"},
   text : { <<"{type:image,format:text,confidence:0.9}">> }]

FailureReplies == NetworkErrors \cup Non2xxReplies \cup NotJsonReplies \cup MissingFieldReplies
ClassifyReplies == WellFormedReplies \cup FailureReplies \cup UnlistedTypeReplies

\* classifyContent without the check of the required fields (sensitivity of C9)
classifyContentUnvalidated(key, reply) ==
  IF ~key THEN DefaultClassification
  ELSE IF reply.fetch = "rejected" THEN DefaultClassification
  ELSE IF ~reply.ok THEN DefaultClassification
  ELSE IF reply.body # "candidates" THEN DefaultClassification
  ELSE LET parsed == JSONparse(StripFences(reply.text)) IN
       IF ~parsed.ok THEN DefaultClassification
       ELSE [type |-> parsed.value.type, format |-> parsed.value.format,
             confidence |-> parsed.value.confidence]

classifyContent(key, reply) ==
  IF ~key THEN DefaultClassification
  ELSE IF reply.fetch = "rejected" THEN DefaultClassification
  ELSE IF ~reply.ok THEN DefaultClassification
  ELSE IF reply.body # "candidates" THEN DefaultClassification
  ELSE LET parsed == JSONparse(StripFences(reply.text)) IN
       IF ~parsed.ok THEN DefaultClassification
       ELSE IF \/ ~Truthy(parsed.value.type)
               \/ ~Truthy(parsed.value.format)
               \/ parsed.value.confidence \notin NumberLiterals
            THEN DefaultClassification
            ELSE [type |-> parsed.value.type, format |-> parsed.value.format,
                  confidence |-> parsed.value.confidence]

getTabType(tab) ==
  CASE tab.classification.type = "dataset" -> "data-source"
    [] tab.classification.type = "prompt" -> "prompt-template"
    [] tab.classification.type = "sheets" -> "spreadsheet"
    [] OTHER -> "display"

\* tabs.find(tab => tab.id === id), as an index; 0 if none
FindTab(tbs, id) ==
  IF \E i \in 1..Len(tbs) : tbs[i].id = id
  THEN CHOOSE i \in 1..Len(tbs) : tbs[i].id = id /\ \A j \in 1..(i-1) : tbs[j].id # id
  ELSE 0

ClickedTabs == {"Dataset 1", "Prompt 1"}

TickMs == CLASSIFICATION_PAUSE_TIME \div 2

\* a classifyContent promise of a build without an API key is already resolved:
\* its continuation runs before the next event
MicrotaskPending == ~hasKey /\ classifyCalls # {}

TimerDue == classificationTimeout # None /\ classificationTimeout.deadline <= now

TemplateTimerDue == \E t \in templateTimers : t.deadline <= now

Tick ==
  /\ ~TimerDue
  /\ ~TemplateTimerDue
  /\ ~MicrotaskPending
  /\ ~EffectsPending
  /\ now + TickMs <= MaxTicks * TickMs
  /\ now' = now + TickMs
  /\ lastOp' = "tick"
  /\ UNCHANGED <<hasKey, graphVars, templateVars, editorVars, templateVars, selectedNode, tabEditVars, reported>>

handleTabClick(tabId) ==
  /\ ~MicrotaskPending
  /\ activeTab' = tabId
  /\ lastOp' = "handleTabClick"
  /\ UNCHANGED <<now, hasKey, graphVars, templateVars, tabs, lastChangeTime, classificationTimeout,
                 classifyCalls, edits, burst, applied, selectedNode, tabEditVars, reported>>

\* history: the burst of edits the edit at now to tab belongs to
BurstOnEdit(tab) ==
  IF burst = None \/ burst.tab # tab \/ now - burst.lastEdit >= CLASSIFICATION_PAUSE_TIME
  THEN [tab |-> tab, lastEdit |-> now, calls |-> 0, early |-> FALSE]
  ELSE [burst EXCEPT !.lastEdit = now]

\* history: a classification call for tab is issued at now
BurstOnCall(b, tab) ==
  IF b # None /\ b.tab = tab
  THEN [b EXCEPT !.calls = @ + 1,
                 !.early = @ \/ now - b.lastEdit < CLASSIFICATION_PAUSE_TIME]
  ELSE b

handleEditorChange(value) ==
  /\ ~MicrotaskPending
  /\ Truthy(value)
  /\ edits < MaxEdits
  /\ LET current == FindTab(tabs, activeTab) IN
       current # 0 => tabs[current].content # value
  /\ edits' = edits + 1
  /\ LET timeSinceLastChange == now - lastChangeTime
         currentTab == FindTab(tabs, activeTab)
         call == [tabId |-> activeTab, content |-> value, at |-> now]
     IN /\ lastChangeTime' = now
        /\ tabs' = MapSeq(tabs, LAMBDA tab : IF tab.id = activeTab
                                            THEN [tab EXCEPT !.content = value] ELSE tab)
        /\ nodes' = SetPrompt(nodes, activeTab, value)
        /\ IF currentTab = 0
           THEN /\ classificationTimeout' = None
                /\ UNCHANGED classifyCalls
                /\ burst' = BurstOnEdit(activeTab)
           ELSE IF timeSinceLastChange >= CLASSIFICATION_PAUSE_TIME
           THEN /\ classificationTimeout' = None
                /\ classifyCalls' = classifyCalls \cup {call}
                /\ burst' = BurstOnCall(BurstOnEdit(activeTab), activeTab)
           ELSE /\ classificationTimeout' =
                     [deadline |-> now + CLASSIFICATION_PAUSE_TIME,
                      tabId |-> activeTab, content |-> value]
                /\ UNCHANGED classifyCalls
                /\ burst' = BurstOnEdit(activeTab)
  /\ lastOp' = "handleEditorChange"
  /\ UNCHANGED <<edges, now, hasKey, executedNodes, promptCalls, invocations,
                 activeTab, applied, templateVars, selectedNode, tabEditVars, reported>>

\* the setTimeout callback of handleEditorChange
classificationTimer ==
  /\ ~MicrotaskPending
  /\ TimerDue
  /\ classifyCalls' = classifyCalls \cup
       {[tabId |-> classificationTimeout.tabId, content |-> classificationTimeout.content,
         at |-> now]}
  /\ classificationTimeout' = None
  /\ burst' = BurstOnCall(burst, classificationTimeout.tabId)
  /\ lastOp' = "classificationTimer"
  /\ UNCHANGED <<now, hasKey, graphVars, templateVars, tabs, activeTab, lastChangeTime, edits, applied, selectedNode, tabEditVars, reported>>

\* classifyContent settles and its .then continuation stores the classification
classified(call, reply) ==
  /\ call \in classifyCalls
  /\ classifyCalls' = classifyCalls \ {call}
  /\ LET classification == classifyContent(hasKey, reply)
         target == FindTab(tabs, call.tabId)
     IN /\ tabs' = MapSeq(tabs, LAMBDA tab : IF tab.id = call.tabId
                                             THEN [tab EXCEPT !.classification = classification]
                                             ELSE tab)
        /\ applied' = [tabId |-> call.tabId, sent |-> call.content,
                       content |-> IF target = 0 THEN undefined ELSE tabs[target].content,
                       reply |-> reply, result |-> classification]
  /\ lastOp' = "classified"
  /\ UNCHANGED <<now, hasKey, graphVars, templateVars, activeTab, lastChangeTime,
                 classificationTimeout, edits, burst, selectedNode, tabEditVars, reported>>

-----------------------------------------------------------------------------
(* Initial state: an empty pipeline, the editor's four built-in tabs *)

InitialTabs ==
  << [id |-> "Dataset 1", name |-> "Dataset 1", content |-> "{\"tactics\":[]}",
      classification |-> [type |-> "dataset", format |-> "json", confidence |-> "0.8"]],
     [id |-> "Prompt 1", name |-> "Prompt 1", content |-> "Create a list",
      classification |-> [type |-> "prompt", format |-> undefined, confidence |-> "0.8"]],
     [id |-> "Dataset 2", name |-> "Dataset 2", content |-> "id,name,description",
      classification |-> [type |-> "dataset", format |-> "csv", confidence |-> "0.8"]],
     [id |-> "Dataset 3", name |-> "Dataset 3", content |-> "tactics:",
      classification |-> [type |-> "dataset", format |-> "yaml", confidence |-> "0.8"]] >>

Mounted ==
  /\ nodes = <<>>
  /\ edges = <<>>
  /\ now = 0
  /\ hasKey \in BOOLEAN
  /\ executedNodes = {}
  /\ promptCalls = {}
  /\ invocations = <<>>
  /\ tabs = InitialTabs
  /\ activeTab = "Dataset 1"
  /\ lastChangeTime = 0
  /\ classificationTimeout = None
  /\ classifyCalls = {}
  /\ edits = 0
  /\ burst = None
  /\ applied = None
  /\ templateDeps = <<>>
  /\ templateTimers = {}
  /\ selectedNode = null
  /\ newTabName = ""
  /\ editingTabId = null
  /\ editingName = ""
  /\ reported = Untracked
  /\ lastOp = "mount"

\* PipelineEditor.createNodeTypes renders PROMPT_TEMPLATE nodes with PromptNode
Init ==
  /\ Mounted
  /\ promptComponent = "PromptNode"

-----------------------------------------------------------------------------
(* The pipeline editor with its node runtimes *)

Next ==
  \/ \E type \in PaletteTypes, dt \in ClockSteps : onAddNode(type, dt)
  \/ \E payload \in DragPayloads, position \in DropPositions, dt \in ClockSteps :
       onDrop(payload, position, dt)
  \/ \E source \in NodeIds(nodes), target \in NodeIds(nodes), dt \in ClockSteps :
       onConnect(source, target, dt)
  \/ \E nodeId \in NodeIds(nodes), dt \in ClockSteps : removeNode(nodeId, dt)
  \/ \E i \in 1..Len(edges), dt \in ClockSteps : handleDeleteEdge(edges[i].id, dt)
  \/ \E dt \in ClockSteps : handleClearAll(dt)
  \/ \E tabId \in TabIds, content \in Contents, dt \in ClockSteps :
       onTabContentChange(tabId, content, dt)
  \/ \E i \in 1..Len(nodes) : PromptEffect(i)
  \/ \E call \in promptCalls, reply \in PromptReplies : handleNodeOutputUpdate(call, reply)
  \/ \E i \in 1..Len(nodes) : processInput(i)

Spec == Init /\ [][Next]_vars

-----------------------------------------------------------------------------
(* The tabbed editor with its classification service *)

NextEditor ==
  \/ Tick
  \/ \E tabId \in ClickedTabs : handleTabClick(tabId)
  \/ \E value \in Contents : handleEditorChange(value)
  \/ classificationTimer
  \/ \E call \in classifyCalls, reply \in ClassifyReplies : classified(call, reply)

SpecEditor == Init /\ [][NextEditor]_vars

-----------------------------------------------------------------------------
(* One prompt node rendered by PromptTemplateNode, its tab being edited *)

InitPromptTemplate ==
  /\ Mounted
  /\ promptComponent = "PromptTemplateNode"

NextPromptTemplate ==
  \/ Tick
  \/ \E payload \in DragPayloads, position \in DropPositions :
       Len(nodes) = 0 /\ onDrop(payload, position, 0)
  \/ \E tabId \in TabIds, content \in Contents : onTabContentChange(tabId, content, 0)
  \/ \E i \in 1..Len(nodes) : PromptTemplateEffect(i)
  \/ \E timer \in templateTimers : PromptTemplateTimer(timer)
  \/ \E call \in promptCalls, reply \in PromptReplies : updateNodeData(call, reply)

SpecPromptTemplate == InitPromptTemplate /\ [][NextPromptTemplate]_vars

-----------------------------------------------------------------------------
(* Node creation, connection and output updates only *)

NextPropagation ==
  \/ \E type \in PaletteTypes, dt \in ClockSteps : onAddNode(type, dt)
  \/ \E payload \in DragPayloads, position \in DropPositions, dt \in ClockSteps :
       onDrop(payload, position, dt)
  \/ \E source \in NodeIds(nodes), target \in NodeIds(nodes), dt \in ClockSteps :
       onConnect(source, target, dt)
  \/ \E i \in 1..Len(nodes) : PromptEffect(i)
  \/ \E call \in promptCalls, reply \in PromptReplies : handleNodeOutputUpdate(call, reply)
  \/ \E i \in 1..Len(nodes) : processInput(i)

SpecPropagation == Init /\ [][NextPropagation]_vars

-----------------------------------------------------------------------------
(* Placement and naming: data-source and display nodes are added from the   *)
(* palette, dropped on the canvas and removed                               *)

NextPlacement ==
  \/ \E type \in PlacedTypes, dt \in ClockSteps : onAddNode(type, dt)
  \/ \E payload \in PlacedPayloads, position \in PlacementPositions, dt \in ClockSteps :
       onDrop(payload, position, dt)
  \/ \E nodeId \in NodeIds(nodes), dt \in RapidSteps : removeNode(nodeId, dt)

SpecPlacement == Init /\ [][NextPlacement]_vars

-----------------------------------------------------------------------------
(* Placement on a panned canvas: a drop near the top edge of the view lands *)
(* at a negative y of the flow                                              *)

PannedPositions == {[x |-> 500, y |-> 200], [x |-> 300, y |-> 0]}

NextPanned ==
  \/ \E type \in PlacedTypes, dt \in ClockSteps : onAddNode(type, dt)
  \/ \E payload \in PlacedPayloads, position \in PannedPositions, dt \in ClockSteps :
       onDrop(payload, position, dt)
  \/ \E nodeId \in NodeIds(nodes), dt \in ClockSteps : removeNode(nodeId, dt)

SpecPanned == Init /\ [][NextPanned]_vars

-----------------------------------------------------------------------------
(* Palette adds and canvas drops only: no manual connection, no removal *)

NextCreation ==
  \/ \E type \in PlacedTypes, dt \in ClockSteps : onAddNode(type, dt)
  \/ \E payload \in PlacedPayloads, position \in PlacementPositions, dt \in ClockSteps :
       onDrop(payload, position, dt)

SpecCreation == Init /\ [][NextCreation]_vars

-----------------------------------------------------------------------------
(* The pipeline editor with the pipeline it reports to its parent: the      *)
(* parent keeps what onChange hands it and passes it back as the prop       *)

InitReported ==
  /\ nodes = <<>>
  /\ edges = <<>>
  /\ now = 0
  /\ hasKey \in BOOLEAN
  /\ executedNodes = {}
  /\ promptCalls = {}
  /\ invocations = <<>>
  /\ tabs = InitialTabs
  /\ activeTab = "Dataset 1"
  /\ lastChangeTime = 0
  /\ classificationTimeout = None
  /\ classifyCalls = {}
  /\ edits = 0
  /\ burst = None
  /\ applied = None
  /\ promptComponent = "PromptNode"
  /\ templateDeps = <<>>
  /\ templateTimers = {}
  /\ selectedNode = null
  /\ newTabName = ""
  /\ editingTabId = null
  /\ editingName = ""
  /\ reported = [tracked |-> TRUE, nodes |-> <<>>, edges |-> <<>>]
  /\ lastOp = "mount"

NextReported ==
  \/ \E type \in PlacedTypes, dt \in ClockSteps : onAddNode(type, dt)
  \/ \E payload \in DragPayloads, position \in DropPositions, dt \in ClockSteps :
       onDrop(payload, position, dt)
  \/ \E source \in NodeIds(nodes), target \in NodeIds(nodes), dt \in ClockSteps :
       onConnect(source, target, dt)
  \/ \E nodeId \in NodeIds(nodes), dt \in ClockSteps : removeNode(nodeId, dt)
  \/ \E i \in 1..Len(edges), dt \in ClockSteps : handleDeleteEdge(edges[i].id, dt)
  \/ \E i \in 1..Len(nodes) : PromptEffect(i)
  \/ \E call \in promptCalls, reply \in PromptReplies : handleNodeOutputUpdate(call, reply)

SpecReported == InitReported /\ [][NextReported]_vars

-----------------------------------------------------------------------------
(* Creations and removals that can fall in the same millisecond *)

NextRapid ==
  \/ \E type \in PlacedTypes, dt \in RapidSteps : onAddNode(type, dt)
  \/ \E payload \in PlacedPayloads, position \in DropPositions, dt \in RapidSteps :
       onDrop(payload, position, dt)
  \/ \E nodeId \in NodeIds(nodes), dt \in RapidSteps : removeNode(nodeId, dt)

SpecRapid == Init /\ [][NextRapid]_vars

-----------------------------------------------------------------------------
(* Properties *)

EdgeSet(eds) == {eds[i] : i \in 1..Len(eds)}
NodeSet(nds) == {nds[i] : i \in 1..Len(nds)}
NodeOf(nds, id) == nds[FindNode(nds, id)]

\* the edges (by position) that end in this node
IncomingAt(eds, id) == {i \in 1..Len(eds) : eds[i].target = id}

\* no effect is due and no text-generation request is in flight
Settled == ~EffectsPending /\ promptCalls = {}

\* C1: after node creations, connections and output updates, once nothing is
\* pending, every edge n -> m between present nodes has m.input = n.output,
\* or '' when n.output is undefined; so an output reported for n after the edge
\* n -> m exists has reached m.input.
C1_SettledEdgesCarryOutput ==
  Settled =>
    \A e \in EdgeSet(edges) :
      (e.source \in NodeIds(nodes) /\ e.target \in NodeIds(nodes)) =>
        OrEmpty(NodeOf(nodes, e.target).input) = OrEmpty(NodeOf(nodes, e.source).output)

\* C2: removeNode(id) removes exactly the node with that id and exactly the
\* edges whose source or target is id: afterwards no edge mentions id, and every
\* other node and every edge not incident to id is still there, unchanged.
C2_RemoveNodeExact ==
  [][\A id \in NodeIds(nodes), dt \in ClockSteps :
       removeNode(id, dt) =>
         /\ id \notin NodeIds(nodes')
         /\ NodeSet(nodes') = {n \in NodeSet(nodes) : n.id # id}
         /\ \A e \in EdgeSet(edges') : e.source # id /\ e.target # id
         /\ EdgeSet(edges') = {e \in EdgeSet(edges) : e.source # id /\ e.target # id}]_vars

\* C2, its case: a node was removed, another node and an edge not incident to
\* the removed node are still there
C2_Witness ==
  /\ lastOp = "removeNode"
  /\ Len(nodes) >= 1
  /\ Len(edges) >= 1

\* C3: when node A is removed and B's only incoming edge was A -> B, B.input is
\* '' after the removal.
C3_RemovalResetsInput ==
  [][\A a \in NodeIds(nodes), dt \in ClockSteps :
       removeNode(a, dt) =>
         \A b \in NodeIds(nodes) \ {a} :
           (/\ Cardinality(IncomingAt(edges, b)) = 1
            /\ \A i \in IncomingAt(edges, b) : edges[i].source = a)
           => OrEmpty(NodeOf(nodes', b).input) = ""]_vars

\* C4: deleting the sole incoming edge of m leaves m.input = '' and
\* m.output = undefined; if m has another incoming edge its input is not cleared.
C4_DisconnectClearsTarget ==
  [][\A i \in 1..Len(edges), dt \in ClockSteps :
       handleDeleteEdge(edges[i].id, dt) =>
         LET m == edges[i].target IN
         m \in NodeIds(nodes) =>
           IF IncomingAt(edges', m) = {}
           THEN /\ OrEmpty(NodeOf(nodes', m).input) = ""
                /\ NodeOf(nodes', m).output = undefined
           ELSE NodeOf(nodes', m).input = NodeOf(nodes, m).input]_vars

\* C5: a connection from a node to itself is rejected, so in every reachable
\* state no edge has source = target.
C5_NoSelfLoop ==
  \A e \in EdgeSet(edges) : e.source # e.target

\* what connect(s, t) does to the nodes: t gets s.output (or '') as input and
\* an undefined output, t's other fields and all other nodes stay as they were
ConnectSetsTarget(s, t) ==
  /\ Len(nodes') = Len(nodes)
  /\ \A i \in 1..Len(nodes) :
       nodes'[i] = IF nodes[i].id = t
                   THEN [nodes[i] EXCEPT !.input = OrEmpty(NodeOf(nodes, s).output),
                                         !.output = undefined]
                   ELSE nodes[i]

\* the edge list grew by exactly one edge, from s to t, at its end
AppendsEdge(s, t) ==
  /\ Len(edges') = Len(edges) + 1
  /\ SubSeq(edges', 1, Len(edges)) = edges
  /\ edges'[Len(edges')].source = s
  /\ edges'[Len(edges')].target = t

C7_OneCallPerBurst ==
  (hasKey /\ burst # None) =>
    /\ burst.calls <= 1
    /\ ~burst.early
    /\ (/\ classificationTimeout = None
        /\ now >= burst.lastEdit + CLASSIFICATION_PAUSE_TIME) => burst.calls = 1

\* C8: a classification result is applied to a tab only if the tab's content is
\* still the content that was sent for classification.
C8_NoStaleResultApplied ==
  applied # None => applied.content = applied.sent

\* C9: for every failing outcome of the external call (no API key, network
\* error, non-2xx response, reply that is not JSON, reply missing a required
\* field) classifyContent returns {dataset, json, 0.8}, and the tab's
\* classification is then set to it.
C9_FailureYieldsDefault ==
  (lastOp = "classified" /\ (~hasKey \/ applied.reply \in FailureReplies)) =>
    /\ applied.result = [type |-> "dataset", format |-> "json", confidence |-> "0.8"]
    /\ \A i \in 1..Len(tabs) :
         tabs[i].id = applied.tabId =>
           tabs[i].classification =
             [type |-> "dataset", format |-> "json", confidence |-> "0.8"]

\* C9, its case: with an API key, a reply that lacks a required field came back
\* for the tab that was classified as a prompt
C9_Witness ==
  /\ lastOp = "classified"
  /\ hasKey
  /\ applied.reply \in MissingFieldReplies
  /\ applied.tabId = "Prompt 1"

\* C10: the text-generation service is invoked at most once per settled
\* (prompt, input) pair of a node: no request is made for a pair of the node
\* whose earlier request had already been answered.
C10_OncePerPair ==
  \A j \in 1..Len(invocations) : ~invocations[j].repeat

-----------------------------------------------------------------------------
(* The pipeline editor when React runs every effect that is due and the     *)
(* text-generation service answers every request                            *)

Answered ==
  /\ WF_vars(\E i \in 1..Len(nodes) : PromptEffect(i))
  /\ WF_vars(\E i \in 1..Len(nodes) : processInput(i))
  /\ WF_vars(\E call \in promptCalls, reply \in PromptReplies :
               handleNodeOutputUpdate(call, reply))

SpecAnswered == Init /\ [][Next]_vars /\ Answered

\* the ids onAddNode and onDrop can give a node within the horizon
NodeIdsInHorizon == {"node-" \o ToString(t) : t \in 0..MaxClock}

\* PromptNode: the node shows "Executing..."
isExecuting(n) == n.output = undefined /\ n.prompt # undefined

\* a Prompt node with a non-empty prompt, in a build with the service's key,
\* is in the executing state
Executing(id) ==
  /\ hasKey
  /\ \E i \in 1..Len(nodes) :
       /\ nodes[i].id = id
       /\ nodes[i].type = PROMPT_TEMPLATE
       /\ Truthy(nodes[i].prompt)
       /\ isExecuting(nodes[i])

\* C11: when the service answers every request, a Prompt node whose output was
\* reset to undefined (its tab was edited, or its input changed) is executed
\* again: its output becomes defined again (or the node is removed), it does
\* not stay in the executing state forever.
C11_ReexecutedAfterReset ==
  \A id \in NodeIdsInHorizon : Executing(id) ~> ~Executing(id)

\* C12: a completion is written to the node's output only if the node's prompt
\* and input are still the ones the request was started with; a completion for
\* a superseded prompt or input leaves the node as it is.
C12_CheckedApply ==
  [][\A call \in promptCalls, reply \in PromptReplies :
       handleNodeOutputUpdate(call, reply) =>
         \A i \in 1..Len(nodes) :
           (/\ nodes[i].id = call.nodeId
            /\ (nodes[i].prompt # call.prompt \/ nodes[i].input # call.input))
           => nodes'[i] = nodes[i]]_vars

\* String.prototype.startsWith
startsWith(s, prefix) ==
  Len(s) >= Len(prefix) /\ SubSeq(s, 1, Len(prefix)) = prefix

\* C13: every failed prompt execution ends with the node's output set to a
\* string that begins with 'Error:'; the node is not left with the output it
\* had (undefined while executing).
C13_FailureWritesError ==
  [][\A call \in promptCalls, reply \in PromptReplies :
       ((handleNodeOutputUpdate(call, reply) \/ updateNodeData(call, reply)) /\ ~reply.ok) =>
         \A i \in 1..Len(nodes) :
           nodes[i].id = call.nodeId => startsWith(nodes'[i].output, "Error:")]_vars

\* C14: the text-generation service is invoked for a Prompt node only after
\* 1 second has passed without a change to its prompt or input, the creation
\* of the node included: no request is made for a node earlier than 1 second
\* after the node was created.
C14_InvokedAfterQuietPeriod ==
  \A j \in 1..Len(invocations) : \A t \in 0..MaxClock :
    invocations[j].nodeId = "node-" \o ToString(t) =>
      invocations[j].at >= t + PromptPause

\* String.prototype.endsWith
endsWith(s, suffix) ==
  Len(s) >= Len(suffix) /\ SubSeq(s, Len(s) - Len(suffix) + 1, Len(s)) = suffix

\* C15: the text sent to the service is the template with the marker INPUT
\* replaced by the node's input when the template contains INPUT, and otherwise
\* the template followed by the input; a non-empty input is never dropped.
C15_SubstitutionRule ==
  \A j \in 1..Len(invocations) :
    LET v == invocations[j]
        marker == indexOf(v.prompt, "INPUT")
    IN IF marker # 0
       THEN v.text = SubSeq(v.prompt, 1, marker - 1) \o OrEmpty(v.input)
                       \o SubSeq(v.prompt, marker + 5, Len(v.prompt))
       ELSE Truthy(v.input) =>
              /\ startsWith(v.text, v.prompt)
              /\ endsWith(v.text, v.input)
              /\ Len(v.text) >= Len(v.prompt) + Len(v.input)

Labels(nds) == {nds[i].label : i \in 1..Len(nds)}

CopyLabel(base, N) == base \o " (Copy " \o ToString(N) \o ")"

\* label is what a node requested as base is named among the nodes nds
NamedFor(nds, base, label) ==
  IF base \notin Labels(nds)
  THEN label = base
  ELSE \E N \in 1..(Len(nds) + 1) :
         /\ label = CopyLabel(base, N)
         /\ label \notin Labels(nds)
         /\ \A M \in 1..(N - 1) : CopyLabel(base, M) \in Labels(nds)

\* C16: a node created with requested base label L gets the label L if no
\* current node has it, and otherwise "L (Copy N)" for the smallest N >= 1 such
\* that no current node has that label (so a copy number freed by a deletion is
\* used again).
C16_UniqueNaming ==
  [][/\ lastOp' = "onAddNode" =>
          \A type \in PaletteTypes, dt \in ClockSteps :
            onAddNode(type, dt) =>
              NamedFor(nodes, "New " \o TypeText(type), nodes'[Len(nodes')].label)
     /\ lastOp' = "onDrop" =>
          \A payload \in DragPayloads, position \in PlacementPositions, dt \in ClockSteps :
            onDrop(payload, position, dt) =>
              NamedFor(nodes, payload.tabId, nodes'[Len(nodes')].label)]_vars

\* C16, its cases: three nodes requested with the same base were named L,
\* L (Copy 1), L (Copy 2); the node L (Copy 1) was removed and the node created
\* next got the freed number
C16_Witness ==
  /\ lastOp = "onAddNode"
  /\ Len(nodes) = 3
  /\ nodes[1].label = "New DISPLAY"
  /\ nodes[2].label = "New DISPLAY (Copy 2)"
  /\ nodes[3].label = "New DISPLAY (Copy 1)"

\* C18: node ids are unique: in every reachable state no two current nodes
\* share an id, also when two nodes are created without the clock advancing
\* between the two creations.
C18_UniqueIds ==
  \A i \in 1..Len(nodes), j \in 1..Len(nodes) :
    i # j => nodes[i].id # nodes[j].id

\* the edge a canvas drop created joins the new node and a node that was there,
\* the anchor; it runs new -> anchor when newIsSource(new.y, anchor.y), and
\* anchor -> new otherwise
DropEdgeRuns(newIsSource(_, _)) ==
  LET new == nodes'[Len(nodes')]
      e == edges'[Len(edges')]
  IN /\ Len(edges') = Len(edges) + 1
     /\ \E a \in 1..Len(nodes) :
          IF newIsSource(new.y, nodes[a].y)
          THEN e.source = new.id /\ e.target = nodes[a].id
          ELSE e.source = nodes[a].id /\ e.target = new.id

\* C19: on a canvas drop next to existing nodes, the created edge is
\* new -> anchor if the new node's y is less than or equal to the anchor's y,
\* and anchor -> new if it is greater.
C19_DropDirection ==
  [][lastOp' = "onDrop" =>
       \A payload \in DragPayloads, position \in PlacementPositions, dt \in ClockSteps :
         (onDrop(payload, position, dt) /\ Len(nodes) > 0) =>
           DropEdgeRuns(LAMBDA newY, anchorY : newY <= anchorY)]_vars

\* C19, its case: a node was dropped at the y of its anchor and the edge runs
\* from the new node to the anchor
C19_Witness ==
  /\ lastOp = "onDrop"
  /\ Len(nodes) >= 2
  /\ Len(edges) >= 1
  /\ LET new == nodes[Len(nodes)]
         e == edges[Len(edges)]
     IN /\ e.source = new.id
        /\ \E a \in 1..(Len(nodes) - 1) :
             nodes[a].id = e.target /\ nodes[a].y = new.y

\* C19 as first stated: the edge is new -> anchor if the new node's y is less
\* than the anchor's y, and otherwise (equal y included) anchor -> new
C19_DropDirectionAsStated ==
  [][lastOp' = "onDrop" =>
       \A payload \in DragPayloads, position \in PlacementPositions, dt \in ClockSteps :
         (onDrop(payload, position, dt) /\ Len(nodes) > 0) =>
           DropEdgeRuns(LAMBDA newY, anchorY : newY < anchorY)]_vars

\* node a of nds is at minimum distance from p, and the first in node order
\* among the nodes at that distance
FirstClosest(nds, p, a) ==
  /\ \A j \in 1..Len(nds) : SqDist(nds[a], p) <= SqDist(nds[j], p)
  /\ \A j \in 1..(a - 1) : SqDist(nds[j], p) > SqDist(nds[a], p)

-----------------------------------------------------------------------------
(* The canvas of data-source nodes: a PipelineEditor that starts with two   *)
(* nodes, adds nodes at the window centre and deletes the selected node     *)

initialNodes ==
  << [id |-> "1", type |-> "dataSource", x |-> 250, y |-> 100,
      label |-> "Data Source 1", sourceType |-> "CSV",
      prompt |-> undefined, displayType |-> undefined],
     [id |-> "2", type |-> "dataSource", x |-> 250, y |-> 300,
      label |-> "Data Source 2", sourceType |-> "JSON",
      prompt |-> undefined, displayType |-> undefined] >>

initialEdges == <<>>

\* what screenToFlowPosition returns for the window centre: it depends on the
\* viewport, which fitView, panning and zooming set
CentrePositions == {[x |-> 500, y |-> 400], [x |-> 250, y |-> 200]}

includes(s, pattern) == indexOf(s, pattern) # 0

handleAddNode(type, position, dt) ==
  /\ Len(nodes) < Len(initialNodes) + MaxNodes
  /\ Elapse(dt)
  /\ LET id == "node-" \o ToString(now + dt)
         newNode ==
           CASE type = DATA_SOURCE ->
                  [id |-> id, type |-> "dataSource", x |-> position.x, y |-> position.y,
                   label |-> "New Data Source", sourceType |-> "CSV",
                   prompt |-> undefined, displayType |-> undefined]
             [] type = PROMPT_TEMPLATE ->
                  [id |-> id, type |-> "promptTemplate", x |-> position.x, y |-> position.y,
                   label |-> "New Prompt Template", sourceType |-> undefined,
                   prompt |-> "", displayType |-> undefined]
             [] type = SPREADSHEET ->
                  [id |-> id, type |-> "spreadsheet", x |-> position.x, y |-> position.y,
                   label |-> "New Spreadsheet", sourceType |-> "sheets",
                   prompt |-> undefined, displayType |-> undefined]
             [] type = DISPLAY ->
                  [id |-> id, type |-> "display", x |-> position.x, y |-> position.y,
                   label |-> "New Display", sourceType |-> undefined,
                   prompt |-> undefined, displayType |-> "text"]
     IN nodes' = Append(nodes, newNode)
  /\ lastOp' = "handleAddNode"
  /\ UNCHANGED <<edges, hasKey, executedNodes, promptCalls, invocations, editorVars,
                 templateVars, selectedNode, tabEditVars, reported>>

handleNodeClick(nodeId, dt) ==
  /\ nodeId \in NodeIds(nodes)
  /\ Elapse(dt)
  /\ selectedNode' = nodeId
  /\ lastOp' = "handleNodeClick"
  /\ UNCHANGED <<nodes, edges, hasKey, executedNodes, promptCalls, invocations, editorVars,
                 templateVars, tabEditVars, reported>>

handleRemoveNode(nodeId, dt) ==
  /\ Elapse(dt)
  /\ nodes' = SelectSeq(nodes, LAMBDA node : node.id # nodeId)
  /\ selectedNode' = null
  /\ lastOp' = "handleRemoveNode"
  /\ UNCHANGED <<edges, hasKey, executedNodes, promptCalls, invocations, editorVars,
                 templateVars, tabEditVars, reported>>

handleKeyDown(key, dt) ==
  /\ key = "Delete"
  /\ selectedNode # null /\ selectedNode # ""
  /\ handleRemoveNode(selectedNode, dt)

handleConnect(source, target, dt) ==
  /\ source \in NodeIds(nodes)
  /\ target \in NodeIds(nodes)
  /\ Elapse(dt)
  /\ edges' = addEdge([source |-> source, target |-> target], edges)
  /\ lastOp' = "handleConnect"
  /\ UNCHANGED <<nodes, hasKey, executedNodes, promptCalls, invocations, editorVars,
                 templateVars, selectedNode, tabEditVars, reported>>

handleTabDrop(tabId, nodeId, tabName, content, dt) ==
  /\ Elapse(dt)
  /\ nodes' = [i \in 1..Len(nodes) |->
                 IF nodes[i].id = nodeId
                 THEN [nodes[i] EXCEPT !.label = tabName,
                                       !.sourceType = IF includes(content, "{")
                                                      THEN "JSON" ELSE "CSV"]
                 ELSE nodes[i]]
  /\ lastOp' = "handleTabDrop"
  /\ UNCHANGED <<edges, hasKey, executedNodes, promptCalls, invocations, editorVars,
                 templateVars, selectedNode, tabEditVars, reported>>

InitFlowEditor ==
  /\ nodes = initialNodes
  /\ edges = initialEdges
  /\ now = 0
  /\ hasKey \in BOOLEAN
  /\ executedNodes = {}
  /\ promptCalls = {}
  /\ invocations = <<>>
  /\ tabs = InitialTabs
  /\ activeTab = "Dataset 1"
  /\ lastChangeTime = 0
  /\ classificationTimeout = None
  /\ classifyCalls = {}
  /\ edits = 0
  /\ burst = None
  /\ applied = None
  /\ promptComponent = "PromptNode"
  /\ templateDeps = <<>>
  /\ templateTimers = {}
  /\ selectedNode = null
  /\ newTabName = ""
  /\ editingTabId = null
  /\ editingName = ""
  /\ reported = Untracked
  /\ lastOp = "mount"

\* EditorPanel.onDrop hands onTabDrop the tab's id as its name and the tab's
\* node type where handleTabDrop expects a node id
NextFlowEditor ==
  \/ \E type \in PaletteTypes, position \in CentrePositions, dt \in ClockSteps :
       handleAddNode(type, position, dt)
  \/ \E nodeId \in NodeIds(nodes), dt \in ClockSteps : handleNodeClick(nodeId, dt)
  \/ \E key \in {"Delete", "Enter"}, dt \in ClockSteps : handleKeyDown(key, dt)
  \/ \E source \in NodeIds(nodes), target \in NodeIds(nodes), dt \in ClockSteps :
       handleConnect(source, target, dt)
  \/ \E payload \in DragPayloads, dt \in ClockSteps :
       handleTabDrop(payload.tabId, payload.nodeId, payload.tabId, payload.tabContent, dt)

SpecFlowEditor == InitFlowEditor /\ [][NextFlowEditor]_vars

\* C17: in every reachable state no two current nodes have the same label,
\* after any sequence of palette adds, drops and deletions.
C17_UniqueLabels ==
  \A i \in 1..Len(nodes), j \in 1..Len(nodes) :
    nodes[i].label = nodes[j].label => i = j

\* C21: the edge a canvas drop creates carries data in its own direction:
\* right after the drop the target of the created edge has the output of the
\* edge's source (or '') as its input, and when the edge runs from the new node
\* to the anchor the new node has not received the anchor's output.
C21_DropCarriesData ==
  [][(lastOp' = "onDrop" /\ Len(edges') = Len(edges) + 1) =>
       LET newEdge == edges'[Len(edges')]
           newNode == nodes'[Len(nodes')]
           sourceNode == nodes'[FindNode(nodes', newEdge.source)]
           targetNode == nodes'[FindNode(nodes', newEdge.target)]
       IN /\ OrEmpty(targetNode.input) = OrEmpty(sourceNode.output)
          /\ (newEdge.source = newNode.id /\ Truthy(targetNode.output))
               => newNode.input # targetNode.output]_vars

\* the first node with the greatest y, the lowest one on the screen
GreatestY(nds) ==
  CHOOSE i \in 1..Len(nds) :
    /\ \A j \in 1..Len(nds) : nds[j].y <= nds[i].y
    /\ \A j \in 1..(i - 1) : nds[j].y < nds[i].y

VerticalSpacing == 100

\* C22: a palette add on a non-empty graph places the new node at the x of the
\* node L with the greatest y and at L.y plus the vertical spacing, whatever the
\* coordinates are, creates exactly the edge L -> new and sets the new node's
\* input to L's output (or '').
C22_PlacedBelowLowest ==
  [][(lastOp' = "onAddNode" /\ Len(nodes) > 0) =>
       LET L == nodes[GreatestY(nodes)]
           new == nodes'[Len(nodes')]
       IN /\ Len(nodes') = Len(nodes) + 1
          /\ new.x = L.x
          /\ new.y = L.y + VerticalSpacing
          /\ Len(edges') = Len(edges) + 1
          /\ SubSeq(edges', 1, Len(edges)) = edges
          /\ edges'[Len(edges')].source = L.id
          /\ edges'[Len(edges')].target = new.id
          /\ new.input = OrEmpty(L.output)]_vars

\* C23: a palette add on an empty graph places the new node at the horizontal
\* centre of the visible canvas (by its centre or by its left edge) and at 15%
\* of the canvas height, and creates no edge.
C23_EmptyCanvasPlacement ==
  [][(lastOp' = "onAddNode" /\ Len(nodes) = 0) =>
       LET new == nodes'[Len(nodes')]
       IN /\ new.x \in {innerWidth \div 2, (innerWidth \div 2) - (NODE_WIDTH \div 2)}
          /\ new.y = (15 * innerHeight) \div 100
          /\ edges' = edges]_vars

\* the topmost node whose rectangle holds the cursor of a drop, 0 if none
NodeUnder(nds, position) ==
  LET under == {i \in 1..Len(nds) :
                  /\ nds[i].x <= position.x /\ position.x <= nds[i].x + NODE_WIDTH
                  /\ nds[i].y <= position.y /\ position.y <= nds[i].y + NODE_HEIGHT}
  IN IF under = {} THEN 0 ELSE CHOOSE i \in under : \A j \in under : j <= i

\* C24: dropping a tab onto an existing node renames the node to the tab's
\* name and, when the tab's kind differs from the node's kind, changes the
\* node's kind to the tab's kind with its output reset.
C24_DropRenamesTarget ==
  [][lastOp' = "onDrop" =>
       \A payload \in DragPayloads, position \in PlacementPositions, dt \in ClockSteps :
         (onDrop(payload, position, dt) /\ NodeUnder(nodes, position) # 0) =>
           LET t == NodeUnder(nodes, position) IN
           /\ Len(nodes') >= t
           /\ nodes'[t].id = nodes[t].id
           /\ nodes'[t].label = payload.tabId
           /\ nodes'[t].type = DropType(payload.nodeId)
           /\ nodes[t].type # DropType(payload.nodeId) => nodes'[t].output = undefined]_vars

\* C25: dropping a tab onto an existing node is not a topology change: the
\* edges stay as they are, no node is created, the node keeps its input and
\* every other node is unchanged.
C25_DropOnNodeKeepsTopology ==
  [][lastOp' = "onDrop" =>
       \A payload \in DragPayloads, position \in PlacementPositions, dt \in ClockSteps :
         (onDrop(payload, position, dt) /\ NodeUnder(nodes, position) # 0) =>
           LET t == NodeUnder(nodes, position) IN
           /\ edges' = edges
           /\ Len(nodes') = Len(nodes)
           /\ nodes'[t].input = nodes[t].input
           /\ \A i \in 1..Len(nodes) : i # t => nodes'[i] = nodes[i]]_vars

\* the ids of the nodes with an edge into the node id
SourcesOf(eds, id) == {eds[i].source : i \in {j \in 1..Len(eds) : eds[j].target = id}}

\* C26: fan-in is last-writer-wins: when the output of a node s has just been
\* updated and nothing is pending, every node m with incoming edges from s and
\* from another source has the new output of s as its input.
C26_LastWriterWins ==
  [][(lastOp' = "updateNodeOutput" /\ Settled') =>
       \A s \in 1..Len(nodes) :
         (nodes'[s].output # nodes[s].output) =>
           \A m \in 1..Len(nodes) :
             ( /\ nodes[m].id # nodes[s].id
               /\ nodes[s].id \in SourcesOf(edges, nodes[m].id)
               /\ SourcesOf(edges, nodes[m].id) \ {nodes[s].id, nodes[m].id} # {} )
             => OrEmpty(nodes'[m].input) = OrEmpty(nodes'[s].output)]_vars

\* the number of edges into the node id
Incoming(eds, id) == Cardinality({i \in 1..Len(eds) : eds[i].target = id})

\* C27: after palette adds and canvas drops only, a new node has at most one
\* incoming edge, and an existing node gains an incoming edge only as the anchor
\* of a canvas drop whose new node is not below it (new.y <= anchor.y): the
\* edge then runs new -> anchor, and this is the only way fan-in arises.
C27_FanInOnlyAtAnchor ==
  [][\A k \in 1..Len(nodes') :
       LET id == nodes'[k].id IN
       IF id \notin NodeIds(nodes)
       THEN Incoming(edges', id) <= 1
       ELSE Incoming(edges', id) > Incoming(edges, id) =>
              /\ lastOp' = "onDrop"
              /\ Incoming(edges', id) = Incoming(edges, id) + 1
              /\ edges'[Len(edges')].source = nodes'[Len(nodes')].id
              /\ nodes'[Len(nodes')].y <= nodes'[k].y]_vars

\* a canvas drop has just given a node its second incoming edge
C27_Witness ==
  /\ lastOp = "onDrop"
  /\ Len(edges) >= 2
  /\ Incoming(edges, edges[Len(edges)].target) = 2
  /\ edges[Len(edges)].source = nodes[Len(nodes)].id

\* C27 as stated: the editor's own connection logic never produces fan-in:
\* after palette adds and canvas drops only, every node has at most one
\* incoming edge.
C27_NoFanIn ==
  \A i \in 1..Len(edges), j \in 1..Len(edges) :
    edges[i].target = edges[j].target => i = j

-----------------------------------------------------------------------------
(* The tab strip of the editor panel: tabs are added by name, renamed,      *)
(* deleted, and created from a node's output                                *)

RECURSIVE trimStart(_)
trimStart(s) ==
  IF Len(s) > 0 /\ SubSeq(s, 1, 1) = " " THEN trimStart(SubSeq(s, 2, Len(s))) ELSE s

RECURSIVE trimEnd(_)
trimEnd(s) ==
  IF Len(s) > 0 /\ SubSeq(s, Len(s), Len(s)) = " "
  THEN trimEnd(SubSeq(s, 1, Len(s) - 1)) ELSE s

trim(s) == trimEnd(trimStart(s))

\* what the user types into the new-tab field and the rename field
TypedNames == {"Dataset 1", "Notes "}

setNewTabName(value, dt) ==
  /\ Elapse(dt)
  /\ newTabName' = value
  /\ lastOp' = "setNewTabName"
  /\ UNCHANGED <<hasKey, graphVars, templateVars, editorVars, selectedNode,
                 editingTabId, editingName, reported>>

addNewTab(dt) ==
  /\ Elapse(dt)
  /\ trim(newTabName) # ""
  /\ Len(tabs) < MaxTabs
  /\ LET newTab == [id |-> trim(newTabName), name |-> trim(newTabName), content |-> "",
                    classification |-> [type |-> "dataset", format |-> "json",
                                        confidence |-> "0.8"]]
     IN /\ tabs' = Append(tabs, newTab)
        /\ activeTab' = newTab.id
  /\ newTabName' = ""
  /\ lastOp' = "addNewTab"
  /\ UNCHANGED <<hasKey, graphVars, templateVars, lastChangeTime, classificationTimeout,
                 classifyCalls, edits, burst, applied, selectedNode, editingTabId,
                 editingName, reported>>

startEditing(tabId, currentName, dt) ==
  /\ Elapse(dt)
  /\ editingTabId' = tabId
  /\ editingName' = currentName
  /\ lastOp' = "startEditing"
  /\ UNCHANGED <<hasKey, graphVars, templateVars, editorVars, selectedNode, newTabName, reported>>

setEditingName(value, dt) ==
  /\ Elapse(dt)
  /\ editingTabId # null
  /\ editingName' = value
  /\ lastOp' = "setEditingName"
  /\ UNCHANGED <<hasKey, graphVars, templateVars, editorVars, selectedNode, newTabName,
                 editingTabId, reported>>

stopEditing(dt) ==
  /\ Elapse(dt)
  /\ editingTabId # null
  /\ tabs' = IF editingTabId # "" /\ trim(editingName) # ""
             THEN MapSeq(tabs, LAMBDA tab :
                    IF tab.id = editingTabId
                    THEN [tab EXCEPT !.id = trim(editingName), !.name = trim(editingName)]
                    ELSE tab)
             ELSE tabs
  /\ editingTabId' = null
  /\ editingName' = ""
  /\ lastOp' = "stopEditing"
  /\ UNCHANGED <<hasKey, graphVars, templateVars, activeTab, lastChangeTime,
                 classificationTimeout, classifyCalls, edits, burst, applied, selectedNode,
                 newTabName, reported>>

deleteTabWithNodes(tabId, dt) ==
  /\ Elapse(dt)
  /\ LET remainingTabs == SelectSeq(tabs, LAMBDA tab : tab.id # tabId)
     IN /\ tabs' = remainingTabs
        /\ activeTab' = IF activeTab = tabId
                        THEN (IF Len(remainingTabs) > 0 THEN remainingTabs[1].id ELSE "")
                        ELSE activeTab
  /\ nodes' = SelectSeq(nodes, LAMBDA node : node.tabId # tabId)
  /\ lastOp' = "deleteTab"
  /\ UNCHANGED <<hasKey, edges, executedNodes, promptCalls, invocations, templateVars,
                 lastChangeTime, classificationTimeout, classifyCalls, edits, burst,
                 applied, selectedNode, tabEditVars, reported>>

deleteTab(tabId, dt) ==
  /\ Elapse(dt)
  /\ LET remainingTabs == SelectSeq(tabs, LAMBDA tab : tab.id # tabId)
     IN /\ tabs' = remainingTabs
        /\ activeTab' = IF activeTab = tabId
                        THEN (IF Len(remainingTabs) > 0 THEN remainingTabs[1].id ELSE "")
                        ELSE activeTab
  /\ lastOp' = "deleteTab"
  /\ UNCHANGED <<hasKey, graphVars, templateVars, lastChangeTime, classificationTimeout,
                 classifyCalls, edits, burst, applied, selectedNode, tabEditVars, reported>>

\* EditorPanel's listener of the 'createOutputTab' event
handleCreateOutputTab(detail, stamp) ==
  LET newTab == [id |-> "output-" \o ToString(stamp), name |-> detail.name,
                 content |-> detail.content,
                 classification |-> [type |-> "dataset", format |-> "json",
                                     confidence |-> "0.8"]]
  IN /\ tabs' = Append(tabs, newTab)
     /\ activeTab' = newTab.id

\* PromptNode: a double click on the output dispatches 'createOutputTab', which
\* EditorPanel's listener handles before dispatchEvent returns
handleOutputDoubleClick(i, dt) ==
  /\ ~EffectsPending
  /\ i \in 1..Len(nodes)
  /\ nodes[i].type = PROMPT_TEMPLATE
  /\ Truthy(nodes[i].output)
  /\ Len(tabs) < MaxTabs
  /\ Elapse(dt)
  /\ handleCreateOutputTab([name |-> nodes[i].label \o " Output",
                            content |-> nodes[i].output], now + dt)
  /\ lastOp' = "handleOutputDoubleClick"
  /\ UNCHANGED <<hasKey, graphVars, templateVars, lastChangeTime, classificationTimeout,
                 classifyCalls, edits, burst, applied, selectedNode, tabEditVars, reported>>

TabIdsOf(tbs) == {tbs[i].id : i \in 1..Len(tbs)}

NextTabs ==
  \/ \E payload \in {p \in DragPayloads : p.nodeId = "prompt-template"},
        position \in DropPositions, dt \in ClockSteps :
       Len(nodes) = 0 /\ onDrop(payload, position, dt)
  \/ \E i \in 1..Len(nodes) : PromptEffect(i)
  \/ \E call \in promptCalls, reply \in PromptReplies : handleNodeOutputUpdate(call, reply)
  \/ \E i \in 1..Len(nodes), dt \in ClockSteps : handleOutputDoubleClick(i, dt)
  \/ \E value \in TypedNames, dt \in ClockSteps : setNewTabName(value, dt)
  \/ \E dt \in ClockSteps : addNewTab(dt)
  \/ \E i \in 1..Len(tabs), dt \in ClockSteps : startEditing(tabs[i].id, tabs[i].name, dt)
  \/ \E value \in TypedNames, dt \in ClockSteps : setEditingName(value, dt)
  \/ \E dt \in ClockSteps : stopEditing(dt)
  \/ \E tabId \in TabIdsOf(tabs), dt \in ClockSteps : deleteTab(tabId, dt)

SpecTabs == Init /\ [][NextTabs]_vars

\* C28: tab ids are unique within the tab collection in every reachable state,
\* after adding tabs by name, renaming, materializing outputs and deleting.
C28_UniqueTabIds ==
  \A i \in 1..Len(tabs), j \in 1..Len(tabs) : tabs[i].id = tabs[j].id => i = j

\* C29: promoting a node's output names the new tab '<node label> Output' when
\* no tab has that name and otherwise adds a numeric suffix, so the step never
\* creates a tab whose name another tab already has.
C29_OutputTabNaming ==
  [][lastOp' = "handleOutputDoubleClick" =>
       \E i \in 1..Len(nodes) :
         LET base == nodes[i].label \o " Output"
             taken == {tabs[k].name : k \in 1..Len(tabs)}
             newTab == tabs'[Len(tabs')]
         IN /\ Len(tabs') = Len(tabs) + 1
            /\ newTab.content = nodes[i].output
            /\ newTab.name \notin taken
            /\ base \notin taken => newTab.name = base
            /\ base \in taken =>
                 \E N \in 1..MaxTabs : newTab.name = base \o " " \o ToString(N)]_vars

\* a step that changes the input or the config of a node that stays on the
\* canvas leaves that node's output undefined
ResetOnChange ==
  \A k \in 1..Len(nodes) :
    nodes[k].id \in NodeIds(nodes') =>
      LET before == nodes[k]
          after == NodeOf(nodes', nodes[k].id)
      IN ( \/ after.input # before.input
           \/ after.prompt # before.prompt
           \/ after.sourceType # before.sourceType
           \/ after.displayType # before.displayType )
         => after.output = undefined

\* the output a Prompt node holds was computed from its current prompt and input
NoStaleOutput ==
  \A k \in 1..Len(nodes) :
    (nodes[k].type = PROMPT_TEMPLATE /\ Truthy(nodes[k].output)) =>
      \E c \in 1..Len(invocations) :
        /\ invocations[c].nodeId = nodes[k].id
        /\ invocations[c].resolved
        /\ invocations[c].prompt = nodes[k].prompt
        /\ OrEmpty(invocations[c].input) = OrEmpty(nodes[k].input)

\* C30: every transition that changes a node's input or config sets the node's
\* output to undefined in the same transition, and in no reachable state does
\* a node hold an output computed from an input or config other than its
\* current one.
C30_Invalidation == [][ResetOnChange]_vars /\ []NoStaleOutput

\* C31: deleting a tab leaves the graph unchanged: every node, also a node
\* whose tabId refers to the deleted tab, and every edge is the same before and
\* after the deletion.
C31_DeleteTabKeepsGraph ==
  [][lastOp' = "deleteTab" =>
       /\ Len(tabs') < Len(tabs)
       /\ nodes' = nodes
       /\ edges' = edges
       /\ promptCalls' = promptCalls]_vars

\* a tab has just been deleted and a node still refers to it
C31_Witness ==
  /\ lastOp = "deleteTab"
  /\ \E i \in 1..Len(nodes) : nodes[i].tabId \notin TabIdsOf(tabs)

\* C32: there is no divergent copy of the graph: after every operation the
\* pipeline last reported through onChange has exactly the current nodes and
\* the current edges; after removeNode it holds neither the removed node nor
\* its edges.
C32_ReportedIsStore ==
  lastOp # "mount" =>
    /\ reported.nodes = nodes
    /\ reported.edges = edges

\* C33: no dangling edges: in every reachable state the source and the target
\* of each edge are ids of current nodes.
C33_NoDanglingEdges ==
  \A i \in 1..Len(edges) :
    edges[i].source \in NodeIds(nodes) /\ edges[i].target \in NodeIds(nodes)

\* C34: a completion arriving for a node that is no longer in the graph
\* (removed by removeNode or by Clear All while its call was in flight) is a
\* no-op: it re-creates no node, adds no edge and changes no other node.
C34_LateCompletionIsNoOp ==
  [][lastOp' = "updateNodeOutput" =>
       \A call \in promptCalls \ promptCalls' :
         call.nodeId \notin NodeIds(nodes) => nodes' = nodes /\ edges' = edges]_vars

\* a completion has just been handled, every call answered so far was for a
\* node that is gone, and other nodes are on the canvas
C34_Witness ==
  /\ lastOp = "updateNodeOutput"
  /\ Len(nodes) > 0
  /\ \E k \in 1..Len(invocations) : invocations[k].resolved
  /\ \A k \in 1..Len(invocations) :
       invocations[k].resolved => invocations[k].nodeId \notin NodeIds(nodes)

\* C35: the classification debounce is per tab: an edit to one tab within the
\* quiet period of another tab's edit leaves that other tab's pending
\* classification in place (still scheduled with the same content, or issued).
C35_DebouncePerTab ==
  [][(lastOp' = "handleEditorChange" /\ classificationTimeout # None
        /\ classificationTimeout.tabId # activeTab) =>
       \/ classificationTimeout' = classificationTimeout
       \/ \E call \in classifyCalls' :
            /\ call.tabId = classificationTimeout.tabId
            /\ call.content = classificationTimeout.content]_vars

\* C36: whenever there is a tab, the active tab id is the id of one of the tabs.
C36_ActiveTabExists ==
  Len(tabs) > 0 => activeTab \in TabIdsOf(tabs)

\* the kinds the classification prompt lists ("type": "dataset" | "prompt" |
\* "sheets" | "display")
ClassificationKinds == {"dataset", "prompt", "sheets", "spreadsheet", "display"}

\* C37: in every reachable state each tab's classification has a kind among
\* dataset, prompt, spreadsheet/sheets and display and a numeric confidence,
\* whatever JSON object the service replies with.
C37_ClassificationWellTyped ==
  \A i \in 1..Len(tabs) :
    /\ tabs[i].classification.type \in ClassificationKinds
    /\ tabs[i].classification.confidence \in NumberLiterals

-----------------------------------------------------------------------------
(* Spreadsheet nodes fed by a prompt node whose service answers with any     *)
(* kind of text                                                              *)

\* texts of the service: an array of records, an empty array, an object;
\* the error text of a failed request is not JSON
SheetTexts == {"[{\"a\":1}]", "[]", "{\"a\":1}"}

SheetReplies == [ok : {TRUE}, text : SheetTexts] \cup {[ok |-> FALSE, text |-> "500"]}

NextSheet ==
  \/ \E payload \in {p \in DragPayloads : p.nodeId = "prompt-template"},
        position \in DropPositions, dt \in ClockSteps :
       Len(nodes) = 0 /\ onDrop(payload, position, dt)
  \/ \E dt \in ClockSteps : onAddNode(SPREADSHEET, dt)
  \/ \E source \in NodeIds(nodes), target \in NodeIds(nodes), dt \in ClockSteps :
       onConnect(source, target, dt)
  \/ \E i \in 1..Len(nodes) : PromptEffect(i)
  \/ \E call \in promptCalls, reply \in SheetReplies : handleNodeOutputUpdate(call, reply)
  \/ \E i \in 1..Len(nodes) : processInput(i)

SpecSheet == Init /\ [][NextSheet]_vars

\* the spreadsheet nodes whose effect has processed their current, non-empty input
Processed(n) == n.type = SPREADSHEET /\ n.depInput = n.input /\ Truthy(n.input)

\* C38: once a spreadsheet node has processed a non-empty input, its output is
\* defined; it is the input itself when the input is a JSON array of records,
\* and it begins with "Error:" when the input is not valid JSON.
C38_SheetOutputDefined ==
  \A i \in 1..Len(nodes) :
    Processed(nodes[i]) =>
      /\ nodes[i].output # undefined
      /\ ParseKind(nodes[i].input) = "array" => nodes[i].output = nodes[i].input
      /\ ParseKind(nodes[i].input) = "invalid" => startsWith(nodes[i].output, "Error:")

-----------------------------------------------------------------------------
(* Propagation between nodes rendered by PromptTemplateNode: each node reads *)
(* its input from the node at the source of its incoming edge.  The clock    *)
(* and the history of requests are not followed by the steps of the nodes,   *)
(* so that a propagation that goes round a cycle shows as a cycle of states. *)

\* edges.find(edge => edge.target === id), as an index; 0 if none
InputEdgeOf(id) ==
  IF \E k \in 1..Len(edges) : edges[k].target = id
  THEN CHOOSE k \in 1..Len(edges) :
         edges[k].target = id /\ \A j \in 1..(k-1) : edges[j].target # id
  ELSE 0

\* the effect on [getEdges(), getNode] changes the node: an incoming edge, its
\* source found, the source's output not yet the node's input
InputEffectEnabled(i) ==
  /\ promptComponent = "PromptTemplateNode"
  /\ nodes[i].type = PROMPT_TEMPLATE
  /\ InputEdgeOf(nodes[i].id) # 0
  /\ LET sourceNode == FindNode(nodes, edges[InputEdgeOf(nodes[i].id)].source) IN
       /\ sourceNode # 0
       /\ nodes[i].input # OrEmpty(nodes[sourceNode].output)

\* PromptTemplateNode.updateInputData: input: sourceNode.data.output || ''
updateInputData(i) ==
  /\ i \in 1..Len(nodes)
  /\ InputEffectEnabled(i)
  /\ LET sourceNode == nodes[FindNode(nodes, edges[InputEdgeOf(nodes[i].id)].source)] IN
       nodes' = [nodes EXCEPT ![i].input = OrEmpty(sourceNode.output)]
  /\ lastOp' = "updateInputData"
  /\ UNCHANGED <<edges, now, hasKey, executedNodes, promptCalls, invocations, editorVars,
                 templateVars, selectedNode, tabEditVars, reported>>

\* the timeout of the effect on [data.prompt, data.input] fires after its pause:
\* executePrompt of that render, up to its fetch
executePrompt(timer) ==
  /\ ~EffectsPending
  /\ timer \in templateTimers
  /\ templateTimers' = templateTimers \ {timer}
  /\ promptCalls' = IF Truthy(timer.prompt)
                    THEN promptCalls \cup {[nodeId |-> timer.nodeId, prompt |-> timer.prompt,
                                            input |-> timer.input, n |-> 0]}
                    ELSE promptCalls
  /\ lastOp' = "executePrompt"
  /\ UNCHANGED <<nodes, edges, now, hasKey, executedNodes, invocations, editorVars,
                 promptComponent, templateDeps, selectedNode, tabEditVars, reported>>

\* the texts the service answers with: not the same text every time
VaryingTexts == {"[{\"a\":1}]", "[]"}
VaryingReplies == [ok : {TRUE}, text : VaryingTexts] \cup {[ok |-> FALSE, text |-> "500"]}

\* executePrompt after the fetch: updateNodeData({ output: generatedText })
generatedText(call, reply) ==
  /\ ~EffectsPending
  /\ call \in promptCalls
  /\ promptCalls' = promptCalls \ {call}
  /\ nodes' = IF reply.ok THEN SetOutput(nodes, call.nodeId, OrEmpty(reply.text)) ELSE nodes
  /\ lastOp' = "updateNodeData"
  /\ UNCHANGED <<edges, now, hasKey, executedNodes, invocations, editorVars, templateVars,
                 selectedNode, tabEditVars, reported>>

MaxCycleNodes == 2

CyclePayloads == {p \in DragPayloads : p.tabContent = "Summarize INPUT"}

InitCycle == InitPromptTemplate /\ hasKey

NextCycle ==
  \/ \E payload \in CyclePayloads, position \in DropPositions, dt \in ClockSteps :
       Len(nodes) < MaxCycleNodes /\ onDrop(payload, position, dt)
  \/ \E source \in NodeIds(nodes), target \in NodeIds(nodes), dt \in ClockSteps :
       onConnect(source, target, dt)
  \/ \E i \in 1..Len(nodes) : PromptTemplateEffect(i)
  \/ \E i \in 1..Len(nodes) : updateInputData(i)
  \/ \E timer \in templateTimers : executePrompt(timer)
  \/ \E call \in promptCalls, reply \in VaryingReplies : generatedText(call, reply)

\* effects run after the render, a timeout fires, a request is answered
Settles ==
  \A i \in 1..MaxCycleNodes :
    /\ WF_vars(i \in 1..Len(nodes) /\ PromptTemplateEffect(i))
    /\ WF_vars(i \in 1..Len(nodes) /\ updateInputData(i))
    /\ WF_vars(\E timer \in templateTimers :
                 /\ i \in 1..Len(nodes)
                 /\ timer.nodeId = nodes[i].id
                 /\ executePrompt(timer))
    /\ WF_vars(\E call \in promptCalls, reply \in VaryingReplies :
                 /\ i \in 1..Len(nodes)
                 /\ call.nodeId = nodes[i].id
                 /\ generatedText(call, reply))

SpecCycle == InitCycle /\ [][NextCycle]_vars /\ Settles

\* nothing is left to do without the user: no effect to run, no timeout
\* pending, no request in flight
Quiescent ==
  /\ templateTimers = {}
  /\ promptCalls = {}
  /\ ~EffectsPending
  /\ \A i \in 1..Len(nodes) : ~InputEffectEnabled(i)

\* C39: propagation terminates: once the user stops acting, finitely many
\* requests and updates follow and the graph stays quiescent, also for
\* a graph with a cycle.
C39_PropagationTerminates == <>[]Quiescent
====
